---------------------------- MODULE Spec2Model ----------------------------
(***************************************************************************)
(* A model of the string analyzer service (src/analyzer): the store of     *)
(* analyzed strings, the handlers of POST /strings, GET /strings,          *)
(* GET and DELETE /strings/{id} and GET /strings/filter-by-natural-        *)
(* language, and the functions they call.                                  *)
(*                                                                         *)
(* Text is modelled as a sequence of one-character strings, so that        *)
(* stripping, splitting, lowercasing, substring search and the regular     *)
(* expressions of the views are computed character by character.           *)
(***************************************************************************)
EXTENDS Integers, Sequences, FiniteSets, TLC

VARIABLES
    store,      \* the rows of the AnalyzedString table (models.py:6-16)
    clock,      \* the time the next row's created_at is taken from
    request,    \* the request handled last (sequential clients)
    response,   \* its response: [status, body]
    live,       \* history: the request values POSTed with 201 whose SHA-256
                \* identifier has not been DELETEd with success since
    pc,         \* concurrent clients: where each POST handler stands
    local,      \* concurrent clients: the handler's locals
    result      \* concurrent clients: the status each handler answered

vars == <<store, clock, request, response, live, pc, local, result>>

(***************************************************************************)
(* Bounds of the model.                                                    *)
(***************************************************************************)
\* The number of rows ever inserted in one run (the values of created_at).
MaxClock == 2

(***************************************************************************)
(* Characters and text.                                                    *)
(***************************************************************************)
LowerLetters == <<"a","b","c","d","e","f","g","h","i","j","k","l","m",
                  "n","o","p","q","r","s","t","u","v","w","x","y","z">>

UpperLetters == <<"A","B","C","D","E","F","G","H","I","J","K","L","M",
                  "N","O","P","Q","R","S","T","U","V","W","X","Y","Z">>

Digits == <<"0","1","2","3","4","5","6","7","8","9">>

Range(s) == {s[i] : i \in 1..Len(s)}

IsLower(c) == c \in Range(LowerLetters)

IsUpper(c) == c \in Range(UpperLetters)

IsDigit(c) == c \in Range(Digits)

\* str.isspace for the characters of the model: the space is the only one.
IsSpace(c) == c = " "

\* [a-zA-Z0-9]
IsAlnum(c) == IsLower(c) \/ IsUpper(c) \/ IsDigit(c)

\* str.lower on one character
LowerChar(c) ==
    IF IsUpper(c)
    THEN LowerLetters[CHOOSE i \in 1..26 : UpperLetters[i] = c]
    ELSE c

\* str.lower
Lower(s) == [i \in 1..Len(s) |-> LowerChar(s[i])]

\* s[::-1]
Reverse(s) == [i \in 1..Len(s) |-> s[Len(s) + 1 - i]]

\* re.sub(r'[^a-zA-Z0-9]', '', s): the letters and digits of s, in order
RECURSIVE SelectAlnum(_)
SelectAlnum(s) ==
    IF s = <<>> THEN <<>>
    ELSE IF IsAlnum(Head(s)) THEN <<Head(s)>> \o SelectAlnum(Tail(s))
    ELSE SelectAlnum(Tail(s))

\* str.strip(): leading and trailing whitespace removed
Strip(s) ==
    LET idx == {i \in 1..Len(s) : ~IsSpace(s[i])}
    IN  IF idx = {} THEN <<>>
        ELSE LET lo == CHOOSE i \in idx : \A j \in idx : i <= j
                 hi == CHOOSE i \in idx : \A j \in idx : i >= j
             IN  SubSeq(s, lo, hi)

\* len(str.split()): the maximal runs of non-whitespace characters
WordCount(s) ==
    Cardinality({i \in 1..Len(s) :
        /\ ~IsSpace(s[i])
        /\ (i = 1 \/ IsSpace(s[i - 1]))})

\* pat in s at position i (1-based)
MatchAt(s, pat, i) ==
    /\ i >= 1
    /\ i + Len(pat) - 1 <= Len(s)
    /\ \A k \in 1..Len(pat) : s[i + k - 1] = pat[k]

\* pat in s
Contains(s, pat) == \E i \in 1..(Len(s) + 1) : MatchAt(s, pat, i)

(***************************************************************************)
(* hashlib.sha256(value.encode('utf-8')).hexdigest(), as a symbolic        *)
(* digest: a text that no request value equals (its first element is no    *)
(* character) and that differs for different values. SHA-256 is taken to   *)
(* be collision free on the values of the model.                           *)
(***************************************************************************)
SHA256(value) == <<"sha256">> \o value

\* as analyze_string, without the test for an empty normalized text
analyze_string_EmptyIsPalindrome(value) ==
    LET normalized == SelectAlnum(Lower(value))
    IN  [ length |-> Len(value),
          is_palindrome |-> normalized = Reverse(normalized),
          unique_characters |-> Cardinality(Range(value)),
          word_count |-> WordCount(value),
          sha256_hash |-> SHA256(value),
          character_frequency_map |->
              [c \in Range(value) |->
                  Cardinality({i \in 1..Len(value) : value[i] = c})] ]

(***************************************************************************)
(* utils.py: analyze_string                                                *)
(***************************************************************************)
analyze_string(value) ==
    LET normalized == SelectAlnum(Lower(value))
    IN  [ length |-> Len(value),
          is_palindrome |->
              IF normalized # <<>> THEN normalized = Reverse(normalized)
              ELSE FALSE,
          unique_characters |-> Cardinality(Range(value)),
          word_count |-> WordCount(value),
          sha256_hash |-> SHA256(value),
          character_frequency_map |->
              [c \in Range(value) |->
                  Cardinality({i \in 1..Len(value) : value[i] = c})] ]

(***************************************************************************)
(* The request values of the model.                                        *)
(***************************************************************************)
\* JSON values of the key 'value' in a POST body
JsonString(text) == [type |-> "string", text |-> text]

JsonNumber == [type |-> "number", text |-> <<>>]

JsonNull == [type |-> "null", text |-> <<>>]

JsonList == [type |-> "list", text |-> <<>>]

JsonObject == [type |-> "object", text |-> <<>>]

\* the texts POSTed
Texts ==
    { <<>>, <<" ">>, <<"a">>, <<" ", "a">>, <<"A">>, <<"a", "b">>,
      <<"a", " ", "b">>, <<"a", " ", "a">>, <<"!">> }

\* a POST body: a JSON object with or without the key 'value'
Bodies ==
    { <<>> }
    \cup { [value |-> j] :
              j \in {JsonString(t) : t \in Texts}
                    \cup {JsonNumber, JsonNull, JsonList, JsonObject} }

\* the identifiers of GET and DELETE /strings/{id}: digests and raw texts
\* (the route's pattern .+ takes any non-empty text)
Identifiers ==
    {SHA256(t) : t \in Texts} \cup {t \in Texts : t # <<>>}

(***************************************************************************)
(* serializers.py: the serializer                                          *)
(***************************************************************************)
MsgBlank == "This field may not be blank."

MsgUnique == "analyzed string with this value already exists."

MsgEmpty == "Value cannot be empty or whitespace."

MsgExists == "String already exists in the system."

NoError == "no error"

\* The field 'value' of the ModelSerializer (serializers.py:9-13) is built
\* from models.TextField(unique=True) (models.py:9): a rest_framework
\* CharField with its defaults trim_whitespace=True and allow_blank=False
\* and a UniqueValidator. The value it hands on is the stripped text.
FieldValue(text) == Strip(text)

\* serializers.py:33-39, on the field's value
validate_value(value) ==
    IF Strip(value) = <<>> THEN MsgEmpty ELSE NoError

\* serializer.is_valid: the first error of the field 'value', or NoError
is_valid(text, st) ==
    IF Strip(text) = <<>> THEN MsgBlank
    ELSE IF \E r \in st : r.value = FieldValue(text) THEN MsgUnique
    ELSE validate_value(FieldValue(text))

\* serializers.py:46: the duplicate check of create
HashExists(value, st) ==
    \E r \in st : r.sha256_hash = analyze_string(value).sha256_hash

\* serializers.py:50-58: the row create inserts
NewRow(value, now) ==
    LET analysis == analyze_string(value)
    IN  [ value |-> value,
          sha256_hash |-> analysis.sha256_hash,
          length |-> analysis.length,
          is_palindrome |-> analysis.is_palindrome,
          unique_characters |-> analysis.unique_characters,
          word_count |-> analysis.word_count,
          character_frequency_map |-> analysis.character_frequency_map,
          created_at |-> now ]

\* models.py:9-10: unique=True on value and on sha256_hash; an INSERT that
\* breaks either raises IntegrityError
ViolatesUnique(row, st) ==
    \E r \in st : r.value = row.value \/ r.sha256_hash = row.sha256_hash

\* serializers.py:6-21: the representation of a row
Serialize(r) ==
    [ id |-> r.sha256_hash,
      value |-> r.value,
      length |-> r.length,
      is_palindrome |-> r.is_palindrome,
      unique_characters |-> r.unique_characters,
      word_count |-> r.word_count,
      sha256_hash |-> r.sha256_hash,
      character_frequency_map |-> r.character_frequency_map,
      created_at |-> r.created_at ]

(***************************************************************************)
(* views.py: StringListCreateView.create                                   *)
(***************************************************************************)
\* as ErrorStatus, without the branch that answers a duplicate with 409
ErrorStatus_NoConflict(msg) == 400

\* views.py:105-142: the status a ValidationError with this message gets
ErrorStatus(msg) ==
    IF msg \in {MsgUnique, MsgExists} THEN 409      \* "already exists"
    ELSE IF msg \in {MsgBlank, MsgEmpty} THEN 400   \* "blank", "empty"
    ELSE 400

Detail(msg) == [detail |-> msg]

ErrorDetail(msg) ==
    IF msg \in {MsgUnique, MsgExists}
    THEN "String with this value already exists."
    ELSE IF msg \in {MsgBlank, MsgEmpty}
    THEN "Value cannot be empty or whitespace."
    ELSE msg

\* views.py:79-91: the checks before the serializer; NoError when they pass
PreCheck(body) ==
    IF "value" \notin DOMAIN body
    THEN "Missing required field: 'value'."
    ELSE IF body.value.type # "string"
    THEN "Invalid data type for 'value'. Must be a string."
    ELSE NoError

\* as LookupByHash, looking the identifier up in the column value
LookupByValue(id, st) == {r \in st : r.value = id}

\* the rows whose sha256_hash is the identifier (views.py:155, 176)
LookupByHash(id, st) == {r \in st : r.sha256_hash = id}

Idle == [op |-> "none"]

NoResponse == [status |-> 0, body |-> <<>>]

Workers == {1, 2}

Init ==
    /\ store = {}
    /\ clock = 1
    /\ request = Idle
    /\ response = NoResponse
    /\ live = {}
    /\ pc = [w \in Workers |-> "idle"]
    /\ local = [w \in Workers |-> <<>>]
    /\ result = [w \in Workers |-> 0]

\* POST /strings, the whole handler (views.py:76-142)
StringListCreateView_create(body) ==
    /\ request = Idle
    /\ request' = [op |-> "POST", body |-> body]
    /\ UNCHANGED <<pc, local, result>>
    /\ IF PreCheck(body) # NoError
       THEN /\ response' = [status |-> 400, body |-> Detail(PreCheck(body))]
            /\ UNCHANGED <<store, clock, live>>
       ELSE LET text == body.value.text
                err == is_valid(text, store)
                value == FieldValue(text)
            IN  IF err # NoError
                THEN /\ response' = [status |-> ErrorStatus(err),
                                     body |-> Detail(ErrorDetail(err))]
                     /\ UNCHANGED <<store, clock, live>>
                ELSE IF HashExists(value, store)
                THEN /\ response' = [status |-> ErrorStatus(MsgExists),
                                     body |-> Detail(ErrorDetail(MsgExists))]
                     /\ UNCHANGED <<store, clock, live>>
                ELSE IF ViolatesUnique(NewRow(value, clock), store)
                THEN \* IntegrityError: no handler catches it
                     /\ response' = [status |-> 500, body |-> <<>>]
                     /\ UNCHANGED <<store, clock, live>>
                ELSE /\ clock <= MaxClock
                     /\ store' = store \cup {NewRow(value, clock)}
                     /\ clock' = clock + 1
                     /\ live' = live \cup {text}
                     /\ response' =
                          [status |-> 201,
                           body |-> Serialize(NewRow(value, clock))]

\* GET /strings/{id} (views.py:151-170)
StringDetailView_get(id) ==
    /\ request = Idle
    /\ request' = [op |-> "GET", id |-> id]
    /\ UNCHANGED <<store, clock, live, pc, local, result>>
    /\ IF LookupByHash(id, store) = {}
       THEN response' = [status |-> 404, body |-> Detail("String not found.")]
       ELSE LET obj == CHOOSE r \in LookupByHash(id, store) : TRUE
            IN  response' = [status |-> 200, body |-> Serialize(obj)]

\* DELETE /strings/{id} (views.py:172-194)
StringDetailView_delete(id) ==
    /\ request = Idle
    /\ request' = [op |-> "DELETE", id |-> id]
    /\ UNCHANGED <<clock, pc, local, result>>
    /\ IF LookupByHash(id, store) = {}
       THEN /\ response' =
                 [status |-> 404, body |-> Detail("String not found.")]
            /\ UNCHANGED <<store, live>>
       ELSE LET obj == CHOOSE r \in LookupByHash(id, store) : TRUE
            IN  /\ store' = store \ {obj}
                /\ live' = {t \in live : SHA256(t) # id}
                /\ response' =
                     [status |-> 200,
                      body |-> Detail("String deleted successfully.")]

\* the client takes the response; the next request may follow
Receive ==
    /\ request # Idle
    /\ request' = Idle
    /\ response' = NoResponse
    /\ UNCHANGED <<store, clock, live, pc, local, result>>

Post == \E body \in Bodies : StringListCreateView_create(body)

Get == \E id \in Identifiers : StringDetailView_get(id)

Delete == \E id \in Identifiers : StringDetailView_delete(id)

Next == Post \/ Get \/ Delete \/ Receive

Spec == Init /\ [][Next]_vars

(***************************************************************************)
(* views.py: StringListCreateView.get_queryset and list                    *)
(***************************************************************************)
\* query_params.get(key) of a key the request does not carry
None == <<"None">>

\* Python's truth value of a query parameter
Truthy(arg) == arg # None /\ arg # <<>>

\* the digits of an integer literal: the stripped text without its sign
IntBody(text) ==
    LET s == Strip(text)
    IN  IF s # <<>> /\ s[1] \in {"+", "-"} THEN Tail(s) ELSE s

\* int(text) does not raise ValueError
IsIntText(text) ==
    /\ IntBody(text) # <<>>
    /\ \A i \in 1..Len(IntBody(text)) : IsDigit(IntBody(text)[i])

DigitValue(c) == (CHOOSE i \in 1..10 : Digits[i] = c) - 1

RECURSIVE DigitsValue(_)
DigitsValue(s) ==
    IF s = <<>> THEN 0
    ELSE DigitsValue(SubSeq(s, 1, Len(s) - 1)) * 10 + DigitValue(s[Len(s)])

\* int(text), for a text int accepts
int(text) ==
    IF Strip(text)[1] = "-" THEN 0 - DigitsValue(IntBody(text))
    ELSE DigitsValue(IntBody(text))

TrueWords == {<<"t","r","u","e">>, <<"1">>, <<"y","e","s">>}

FalseWords == {<<"f","a","l","s","e">>, <<"0">>, <<"n","o">>}

\* as IContains, with the lookup contains: the letter case counts
ContainsExact(value, text) == Contains(value, text)

\* value__icontains: containment ignoring letter case (views.py:52, 294)
IContains(value, text) == Contains(Lower(value), Lower(text))

\* as LengthAtLeast, with the lookup gt
LengthAbove(r, n) == r.length > n

\* length__gte (views.py:41, 288)
LengthAtLeast(r, n) == r.length >= n

\* length__lte (views.py:43, 291)
LengthAtMost(r, n) == r.length <= n

\* .order_by('-created_at'): newest first
RECURSIVE OrderByCreatedDesc(_)
OrderByCreatedDesc(rows) ==
    IF rows = {} THEN <<>>
    ELSE LET newest == CHOOSE r \in rows :
                           \A o \in rows : o.created_at <= r.created_at
         IN  <<newest>> \o OrderByCreatedDesc(rows \ {newest})

\* serializer(queryset, many=True).data
SerializeMany(rows) ==
    LET ordered == OrderByCreatedDesc(rows)
    IN  [i \in 1..Len(ordered) |-> Serialize(ordered[i])]

\* views.py:30-55: int() raises on one of the numeric parameters
QueryError(params) ==
    \/ Truthy(params.min_length) /\ ~IsIntText(params.min_length)
    \/ Truthy(params.max_length) /\ ~IsIntText(params.max_length)
    \/ Truthy(params.word_count) /\ ~IsIntText(params.word_count)

\* views.py:18-57: the rows of the filtered queryset (no parameter raises)
get_queryset(params, st) ==
    {r \in st :
        /\ (params.is_palindrome # None
              /\ Lower(params.is_palindrome) \in TrueWords)
           => r.is_palindrome
        /\ (params.is_palindrome # None
              /\ Lower(params.is_palindrome) \notin TrueWords
              /\ Lower(params.is_palindrome) \in FalseWords)
           => ~r.is_palindrome
        /\ Truthy(params.min_length)
           => LengthAtLeast(r, int(params.min_length))
        /\ Truthy(params.max_length)
           => LengthAtMost(r, int(params.max_length))
        /\ Truthy(params.word_count) => r.word_count = int(params.word_count)
        /\ Truthy(params.contains_character)
           => IContains(r.value, params.contains_character)}

\* the query parameters of the model
PalindromeArgs ==
    {None, <<"t","r","u","e">>, <<"N","O">>, <<"m","a","y","b","e">>}

MinLengthArgs == {None, <<"2">>, <<"x">>}

MaxLengthArgs == {None, <<"2">>, <<>>}

WordCountArgs == {None, <<"1">>, <<"1", ".", "5">>}

CharacterArgs == {None, <<"a">>, <<"B">>}

\* a key the view does not read
OtherArgs == {None, <<"1">>}

QueryParams ==
    [ is_palindrome : PalindromeArgs,
      min_length : MinLengthArgs,
      max_length : MaxLengthArgs,
      word_count : WordCountArgs,
      contains_character : CharacterArgs,
      sort : OtherArgs ]

\* GET /strings (views.py:59-74)
StringListCreateView_list(params) ==
    /\ request = Idle
    /\ request' = [op |-> "LIST", params |-> params]
    /\ UNCHANGED <<store, clock, live, pc, local, result>>
    /\ IF QueryError(params)
       THEN response' =
                [status |-> 400, body |-> Detail("Invalid query parameter")]
       ELSE response' =
                [status |-> 200,
                 body |-> [data |-> SerializeMany(get_queryset(params, store)),
                           count |-> Cardinality(get_queryset(params, store))]]

(***************************************************************************)
(* views.py: NaturalLanguageFilterView.get                                 *)
(***************************************************************************)
\* the longest run of digits of q that starts at position j
DigitRun(q, j) ==
    LET ends == {k \in j..Len(q) : \A i \in j..k : IsDigit(q[i])}
    IN  IF ends = {} THEN <<>>
        ELSE SubSeq(q, j, CHOOSE k \in ends : \A e \in ends : e <= k)

\* re.search(r"(?:lead1|lead2|...)(\d+)", q).group(1): the digits of the
\* leftmost match, <<>> when there is none
SearchNumber(q, leads) ==
    LET at(i) == \E l \in leads :
                    MatchAt(q, l, i) /\ DigitRun(q, i + Len(l)) # <<>>
        hits == {i \in 1..Len(q) : at(i)}
    IN  IF hits = {} THEN <<>>
        ELSE LET i == CHOOSE h \in hits : \A o \in hits : h <= o
                 l == CHOOSE x \in leads :
                         MatchAt(q, x, i) /\ DigitRun(q, i + Len(x)) # <<>>
             IN  DigitRun(q, i + Len(l))

\* what (?:the )?(?:letter |character )?['\"]? may consume, in the order the
\* regex engine tries it (each optional group first taken, then skipped)
OptionalPrefixes ==
    LET the == << <<"t","h","e"," ">>, <<>> >>
        kind == << <<"l","e","t","t","e","r"," ">>,
                   <<"c","h","a","r","a","c","t","e","r"," ">>,
                   <<>> >>
        quote == << <<"'">>, <<"\"">>, <<>> >>
    IN  [n \in 1..18 |->
            the[((n - 1) \div 9) + 1]
            \o kind[(((n - 1) \div 3) % 3) + 1]
            \o quote[((n - 1) % 3) + 1]]

\* re.search(lead + r"(?:the )?(?:letter |character )?['\"]?([a-z])['\"]?",
\* q).group(1) as a one-character text, <<>> when there is no match
SearchLetter(q, lead) ==
    LET ok(i, n) ==
            LET j == i + Len(lead)
                p == OptionalPrefixes[n]
            IN  /\ MatchAt(q, lead, i)
                /\ MatchAt(q, p, j)
                /\ j + Len(p) <= Len(q)
                /\ IsLower(q[j + Len(p)])
        hits == {i \in 1..Len(q) : \E n \in 1..18 : ok(i, n)}
    IN  IF hits = {} THEN <<>>
        ELSE LET i == CHOOSE h \in hits : \A o \in hits : h <= o
                 n == CHOOSE m \in 1..18 :
                         ok(i, m) /\ \A o \in 1..18 : ok(i, o) => m <= o
             IN  <<q[i + Len(lead) + Len(OptionalPrefixes[n])]>>

ContainsAny(q, phrases) == \E p \in phrases : Contains(q, p)

\* views.py:219-221
ParsePalindrome(q) ==
    IF ContainsAny(q,
          { <<"p","a","l","i","n","d","r","o","m","e">>,
            <<"p","a","l","i","n","d","r","o","m","i","c">> })
    THEN "is_palindrome" :> TRUE
    ELSE <<>>

\* views.py:223-229
ParseWordCount(q) ==
    IF ContainsAny(q,
          { <<"s","i","n","g","l","e"," ","w","o","r","d">>,
            <<"o","n","e"," ","w","o","r","d">>,
            <<"1"," ","w","o","r","d">>,
            <<"s","i","n","g","l","e","-","w","o","r","d">> })
    THEN "word_count" :> 1
    ELSE IF ContainsAny(q,
          { <<"t","w","o"," ","w","o","r","d">>,
            <<"2"," ","w","o","r","d">>,
            <<"t","w","o","-","w","o","r","d">> })
    THEN "word_count" :> 2
    ELSE IF ContainsAny(q,
          { <<"t","h","r","e","e"," ","w","o","r","d">>,
            <<"3"," ","w","o","r","d">>,
            <<"t","h","r","e","e","-","w","o","r","d">> })
    THEN "word_count" :> 3
    ELSE <<>>

\* views.py:232-234
ParseLonger(q) ==
    LET n == SearchNumber(q,
          { <<"l","o","n","g","e","r"," ","t","h","a","n"," ">> })
    IN  IF n # <<>> THEN "min_length" :> (DigitsValue(n) + 1) ELSE <<>>

\* as ParseShorter, with max_length = N
ParseShorter_Inclusive(q) ==
    LET n == SearchNumber(q, {<<"s","h","o","r","t","e","r"," ","t","h","a","n"," ">>})
    IN  IF n # <<>> THEN "max_length" :> DigitsValue(n) ELSE <<>>

\* views.py:236-238
ParseShorter(q) ==
    LET n == SearchNumber(q,
          { <<"s","h","o","r","t","e","r"," ","t","h","a","n"," ">> })
    IN  IF n # <<>> THEN "max_length" :> (DigitsValue(n) - 1) ELSE <<>>

\* views.py:241-245
ParseExact(q) ==
    LET n == SearchNumber(q,
          { <<"e","x","a","c","t","l","y"," ">>,
            <<"o","f"," ","l","e","n","g","t","h"," ">>,
            <<"l","e","n","g","t","h"," ","o","f"," ">> })
    IN  IF n # <<>>
        THEN ("min_length" :> DigitsValue(n))
             @@ ("max_length" :> DigitsValue(n))
        ELSE <<>>

\* views.py:248-250
ParseContaining(q) ==
    LET c == SearchLetter(q, <<"c","o","n","t","a","i","n","i","n","g"," ">>)
    IN  IF c # <<>> THEN "contains_character" :> c ELSE <<>>

\* views.py:253-255
ParseWith(q) ==
    LET c == SearchLetter(q, <<"w","i","t","h"," ">>)
    IN  IF c # <<>> THEN "contains_character" :> c ELSE <<>>

\* views.py:258-267
ParseVowel(q) ==
    IF ContainsAny(q,
          { <<"f","i","r","s","t"," ","v","o","w","e","l">>,
            <<"v","o","w","e","l"," ","a">>,
            <<"l","e","t","t","e","r"," ","a">>,
            <<"w","i","t","h"," ","a">> })
    THEN "contains_character" :> <<"a">>
    ELSE IF ContainsAny(q,
          { <<"v","o","w","e","l"," ","e">>,
            <<"l","e","t","t","e","r"," ","e">> })
    THEN "contains_character" :> <<"e">>
    ELSE IF ContainsAny(q,
          { <<"v","o","w","e","l"," ","i">>,
            <<"l","e","t","t","e","r"," ","i">> })
    THEN "contains_character" :> <<"i">>
    ELSE IF ContainsAny(q,
          { <<"v","o","w","e","l"," ","o">>,
            <<"l","e","t","t","e","r"," ","o">> })
    THEN "contains_character" :> <<"o">>
    ELSE IF ContainsAny(q,
          { <<"v","o","w","e","l"," ","u">>,
            <<"l","e","t","t","e","r"," ","u">> })
    THEN "contains_character" :> <<"u">>
    ELSE <<>>

\* as ParseQuery, with the exact-length rule applied before the longer-than
\* and shorter-than rules
ParseQuery_ExactFirst(query) ==
    LET q == Lower(query)
    IN  ParseVowel(q) @@ ParseWith(q) @@ ParseContaining(q) @@ ParseShorter(q)
        @@ ParseLonger(q) @@ ParseExact(q) @@ ParseWordCount(q)
        @@ ParsePalindrome(q)

\* as ParseQuery, with the vowel phrases looked for before the containing
\* and with rules
ParseQuery_VowelFirst(query) ==
    LET q == Lower(query)
    IN  ParseWith(q) @@ ParseContaining(q) @@ ParseVowel(q) @@ ParseExact(q)
        @@ ParseShorter(q) @@ ParseLonger(q) @@ ParseWordCount(q)
        @@ ParsePalindrome(q)

\* views.py:215-267: the dict filters; a later assignment to a key replaces
\* an earlier one (f <<>> g keeps f where both are defined)
ParseQuery(query) ==
    LET q == Lower(query)
    IN  ParseVowel(q) @@ ParseWith(q) @@ ParseContaining(q) @@ ParseExact(q)
        @@ ParseShorter(q) @@ ParseLonger(q) @@ ParseWordCount(q)
        @@ ParsePalindrome(q)

\* filters.get(key) is not None
Has(filters, key) == key \in DOMAIN filters

\* views.py:279-294: the rows of the filtered queryset
ApplyFilters(filters, st) ==
    {r \in st :
        /\ Has(filters, "is_palindrome")
           => r.is_palindrome = filters["is_palindrome"]
        /\ Has(filters, "word_count")
           => r.word_count = filters["word_count"]
        /\ Has(filters, "min_length")
           => LengthAtLeast(r, filters["min_length"])
        /\ Has(filters, "max_length")
           => LengthAtMost(r, filters["max_length"])
        /\ Has(filters, "contains_character")
           => IContains(r.value, filters["contains_character"])}

\* the values of the parameter query
Queries ==
    { None, <<>>, <<" ">>,
      <<"s","i","n","g","l","e"," ","w","o","r","d"," ","p","a","l","i",
            "n","d","r","o","m","i","c"," ","s","t","r","i","n","g","s">>,
      <<"s","t","r","i","n","g","s"," ","l","o","n","g","e","r"," ","t",
            "h","a","n"," ","5"," ","c","h","a","r","a","c","t","e","r","s">>,
      <<"h","e","l","l","o"," ","w","o","r","l","d">>,
      <<"S","t","r","i","n","g","s"," ","c","o","n","t","a","i","n","i",
            "n","g"," ","t","h","e"," ","l","e","t","t","e","r"," ","B">>,
      <<"s","t","r","i","n","g","s"," ","w","i","t","h"," ","t","h","e",
            " ","v","o","w","e","l"," ","a">>,
      <<"s","h","o","r","t","e","r"," ","t","h","a","n"," ","0">>,
      <<"e","x","a","c","t","l","y"," ","3"," ","l","o","n","g","e","r",
            " ","t","h","a","n"," ","1">>,
      <<"t","w","o"," ","w","o","r","d"," ","p","a","l","i","n","d","r",
            "o","m","e","s">>,
      <<"w","i","t","h"," ","b"," ","s","h","o","r","t","e","r"," ","t",
            "h","a","n"," ","1","0">>,
      <<"c","o","n","t","a","i","n","i","n","g"," ","'","a","'">> }

\* GET /strings/filter-by-natural-language (views.py:205-304)
NaturalLanguageFilterView_get(param) ==
    /\ request = Idle
    /\ request' = [op |-> "NL", query |-> param]
    /\ UNCHANGED <<store, clock, live, pc, local, result>>
    /\ LET query == IF param = None THEN <<>> ELSE Strip(param)
           filters == ParseQuery(query)
           rows == ApplyFilters(filters, store)
       IN  IF query = <<>>
           THEN response' =
                    [status |-> 400,
                     body |-> Detail("Missing required parameter: 'query'.")]
           ELSE response' =
                    [status |-> 200,
                     body |-> [data |-> SerializeMany(rows),
                               count |-> Cardinality(rows),
                               query |-> query,
                               filters |-> filters]]

List == \E params \in QueryParams : StringListCreateView_list(params)

NaturalLanguage == \E q \in Queries : NaturalLanguageFilterView_get(q)

QueryNext == Post \/ List \/ NaturalLanguage \/ Receive

\* the service with POST and the two query endpoints
QuerySpec == Init /\ [][QueryNext]_vars

(***************************************************************************)
(* The interpreter alone: the natural-language endpoint on queries put     *)
(* together from phrases, against the empty table.                         *)
(***************************************************************************)
\* The number of phrases of a query.
MaxPhrases == 2

\* a phrase of a query: its text and what it says (kind: the rule it is
\* written for; n: its number; letter: the letter after containing/with;
\* named: the vowels its text names by "vowel X", "letter X", "with a")
Phrase(text, kind, n, letter, named) ==
    [text |-> text, kind |-> kind, n |-> n, letter |-> letter,
     named |-> named]

Phrases ==
    {
      Phrase(<<"t","w","o"," ","w","o","r","d"," ",
               "p","a","l","i","n","d","r","o","m","i","c">>,
             "other", 0, "", {}),
      Phrase(<<"l","o","n","g","e","r"," ","t","h","a","n"," ","5">>,
             "longer", 5, "", {}),
      Phrase(<<"s","h","o","r","t","e","r"," ","t","h","a","n"," ","0">>,
             "shorter", 0, "", {}),
      Phrase(<<"s","h","o","r","t","e","r"," ","t","h","a","n"," ","1","0">>,
             "shorter", 10, "", {}),
      Phrase(<<"e","x","a","c","t","l","y"," ","3">>,
             "exact", 3, "", {}),
      Phrase(<<"o","f"," ","l","e","n","g","t","h"," ","2">>,
             "exact", 2, "", {}),
      Phrase(<<"c","o","n","t","a","i","n","i","n","g"," ","t","h","e"," ","l","e","t","t","e","r"," ","z">>,
             "generic", 0, "z", {}),
      Phrase(<<"w","i","t","h"," ","b">>,
             "generic", 0, "b", {}),
      Phrase(<<"v","o","w","e","l"," ","e">>,
             "vowel", 0, "", {"e"}),
      Phrase(<<"w","i","t","h"," ","a">>,
             "generic", 0, "a", {"a"}),
      Phrase(<<"c","o","n","t","a","i","n","i","n","g"," ","t","h","e"," ","l","e","t","t","e","r"," ","u">>,
             "generic", 0, "u", {"u"}) }

PhraseLists == UNION {[1..k -> Phrases] : k \in 0..MaxPhrases}

\* the query text: the phrases' texts with one space between them
RECURSIVE JoinPhrases(_)
JoinPhrases(ps) ==
    IF ps = <<>> THEN <<>>
    ELSE IF Len(ps) = 1 THEN ps[1].text
    ELSE ps[1].text \o <<" ">> \o JoinPhrases(Tail(ps))

Interpret ==
    \E ps \in PhraseLists : NaturalLanguageFilterView_get(JoinPhrases(ps))

InterpreterNext == Interpret \/ Receive

InterpreterSpec == Init /\ [][InterpreterNext]_vars

(***************************************************************************)
(* Two clients whose POST /strings handlers run at the same time: the      *)
(* handler of views.py:76-142 in the steps that read or write the table.   *)
(***************************************************************************)
\* the texts the concurrent clients POST
ConcurrentTexts == { <<"a">>, <<"A">>, <<"a", "b">> }

\* the request arrives; views.py:79-91 pass, the body holds a string
Begin(w, text) ==
    /\ pc[w] = "idle"
    /\ clock <= MaxClock
    /\ pc' = [pc EXCEPT ![w] = "is_valid"]
    /\ local' = [local EXCEPT ![w] =
                    [text |-> text,
                     fresh |-> \A r \in store : r.value # text]]
    /\ UNCHANGED <<store, clock, request, response, live, result>>

\* views.py:97: serializer.is_valid, with the UniqueValidator's query
Validate(w) ==
    /\ pc[w] = "is_valid"
    /\ LET err == is_valid(local[w].text, store)
       IN  IF err # NoError
           THEN /\ pc' = [pc EXCEPT ![w] = "done"]
                /\ result' = [result EXCEPT ![w] = ErrorStatus(err)]
           ELSE /\ pc' = [pc EXCEPT ![w] = "create"]
                /\ UNCHANGED result
    /\ UNCHANGED <<store, clock, request, response, live, local>>

\* serializers.py:46-48: the exists() query of create
CheckDuplicate(w) ==
    /\ pc[w] = "create"
    /\ IF HashExists(FieldValue(local[w].text), store)
       THEN /\ pc' = [pc EXCEPT ![w] = "done"]
            /\ result' = [result EXCEPT ![w] = ErrorStatus(MsgExists)]
       ELSE /\ pc' = [pc EXCEPT ![w] = "insert"]
            /\ UNCHANGED result
    /\ UNCHANGED <<store, clock, request, response, live, local>>

\* serializers.py:50-58: the INSERT; the table's unique constraints make it
\* raise IntegrityError, which views.py:105 does not catch
Insert(w) ==
    /\ pc[w] = "insert"
    /\ pc' = [pc EXCEPT ![w] = "done"]
    /\ LET row == NewRow(FieldValue(local[w].text), clock)
       IN  IF ViolatesUnique(row, store)
           THEN /\ result' = [result EXCEPT ![w] = 500]
                /\ UNCHANGED <<store, clock>>
           ELSE /\ result' = [result EXCEPT ![w] = 201]
                /\ store' = store \cup {row}
                /\ clock' = clock + 1
    /\ UNCHANGED <<request, response, live, local>>

\* the client takes the answer and may send another request
Finish(w) ==
    /\ pc[w] = "done"
    /\ pc' = [pc EXCEPT ![w] = "idle"]
    /\ local' = [local EXCEPT ![w] = <<>>]
    /\ result' = [result EXCEPT ![w] = 0]
    /\ UNCHANGED <<store, clock, request, response, live>>

ConcurrentNext ==
    \E w \in Workers :
        \/ \E text \in ConcurrentTexts : Begin(w, text)
        \/ Validate(w)
        \/ CheckDuplicate(w)
        \/ Insert(w)
        \/ Finish(w)

ConcurrentSpec == Init /\ [][ConcurrentNext]_vars

(***************************************************************************)
(* The claims, checked under Spec.                                         *)
(***************************************************************************)
IsPost(req) == req.op = "POST"

\* the POST body carries a string under 'value'
HasText(req) ==
    /\ IsPost(req)
    /\ "value" \in DOMAIN req.body
    /\ req.body.value.type = "string"

NoDuplicates ==
    \A r1, r2 \in store :
        (r1.value = r2.value \/ r1.sha256_hash = r2.sha256_hash) => r1 = r2

\* C1: after any sequence of POST and DELETE requests the store never holds
\* two rows with the same value or the same sha256_hash, and a POST whose
\* value is stored at that moment is answered 409 and leaves the store as
\* it was.
C1_NoSilentDuplicate ==
    /\ []NoDuplicates
    /\ [][ (HasText(request')
             /\ \E r \in store : r.value = request'.body.value.text)
           => (response'.status = 409 /\ store' = store) ]_vars

\* a POST of a stored value has been answered 409
C1_Witness ==
    /\ HasText(request)
    /\ response.status = 409
    /\ \E r \in store : r.value = request.body.value.text

IsDelete(req) == req.op = "DELETE"

\* C3: DELETE /strings/{id} with an identifier that is no stored row's
\* sha256_hash answers 404 and leaves the store as it was; with the
\* sha256_hash of a stored row it answers 200 and removes that row alone.
C3_DeleteByHash ==
    [][ IsDelete(request') =>
          LET hit == {r \in store : r.sha256_hash = request'.id}
          IN  IF hit = {}
              THEN response'.status = 404 /\ store' = store
              ELSE /\ response'.status = 200
                   /\ Cardinality(hit) = 1
                   /\ store' = store \ hit ]_vars

\* a DELETE has removed one row and another row is still stored
C3_Witness ==
    /\ IsDelete(request)
    /\ response.status = 200
    /\ store # {}
    /\ \A r \in store : r.sha256_hash # request.id

\* C4: GET /strings/{SHA256(v)} answers 200 with the row whose value is v
\* exactly when v was POSTed with 201 and its identifier has not been
\* DELETEd with success since, and 404 otherwise.
C4_GetWhileLive ==
    \A t \in Texts :
        (request.op = "GET" /\ request.id = SHA256(t)) =>
            IF t \in live
            THEN response.status = 200 /\ response.body.value = t
            ELSE response.status = 404

\* the body has no 'value', a 'value' that is no string, or one that is
\* empty or whitespace only
C7_BadBody(body) ==
    \/ "value" \notin DOMAIN body
    \/ body.value.type # "string"
    \/ \A i \in 1..Len(body.value.text) : IsSpace(body.value.text[i])

\* C7: POST /strings with no 'value', a 'value' that is no string, or an
\* empty or whitespace-only 'value' is answered 400 and stores nothing;
\* every other string that is not stored yet is answered 201 and adds
\* exactly one row.
C7_PostOutcome ==
    [][ IsPost(request') =>
          IF C7_BadBody(request'.body)
          THEN response'.status = 400 /\ store' = store
          ELSE (\A r \in store : r.value # request'.body.value.text)
               => /\ response'.status = 201
                  /\ store \subseteq store'
                  /\ Cardinality(store') = Cardinality(store) + 1 ]_vars

(***************************************************************************)
(* The claims, checked under ConcurrentSpec.                               *)
(***************************************************************************)
\* C2: two POSTs of one value that both started while the value was not
\* stored end with one 201 and one 409.
C2_OneCreatedOneConflict ==
    ( /\ \A w \in Workers : pc[w] = "done" /\ local[w].fresh
      /\ local[1].text = local[2].text )
    => {result[w] : w \in Workers} = {201, 409}

(***************************************************************************)
(* The claims, checked under QuerySpec.                                    *)
(***************************************************************************)
IsList(req) == req.op = "LIST"

IsNL(req) == req.op = "NL"

NumericKeys == {"min_length", "max_length", "word_count"}

\* the text is a boolean the endpoint knows
C5_IsBoolean(text) == Lower(text) \in TrueWords \cup FalseWords

\* is_palindrome, min_length, max_length and word_count are absent or
\* parseable, and contains_character is absent
C5_Parseable(params) ==
    /\ params.is_palindrome # None => C5_IsBoolean(params.is_palindrome)
    /\ \A k \in NumericKeys : params[k] # None => IsIntText(params[k])
    /\ params.contains_character = None

\* the row satisfies every criterion the request carries
C5_Satisfies(r, params) ==
    /\ params.is_palindrome # None
       => (r.is_palindrome <=> Lower(params.is_palindrome) \in TrueWords)
    /\ params.min_length # None => r.length >= int(params.min_length)
    /\ params.max_length # None => r.length <= int(params.max_length)
    /\ params.word_count # None => r.word_count = int(params.word_count)

\* C5: GET /strings with parseable values of any of is_palindrome,
\* min_length, max_length and word_count answers 200 with exactly the rows
\* that satisfy all of them, count their number, newest first.
C5_ListConjunction ==
    (IsList(request) /\ C5_Parseable(request.params)) =>
        LET want == {r \in store : C5_Satisfies(r, request.params)}
            data == response.body.data
        IN  /\ response.status = 200
            /\ Len(data) = Cardinality(want)
            /\ {data[i] : i \in 1..Len(data)} = {Serialize(r) : r \in want}
            /\ response.body.count = Cardinality(want)
            /\ \A i, j \in 1..Len(data) :
                   i < j => data[i].created_at > data[j].created_at

\* three criteria are given; one stored row is returned, another is not
C5_Witness ==
    /\ IsList(request)
    /\ C5_Parseable(request.params)
    /\ Cardinality({k \in {"is_palindrome"} \cup NumericKeys :
                       request.params[k] # None}) >= 3
    /\ response.status = 200
    /\ response.body.count >= 1
    /\ Cardinality(store) > response.body.count

\* the criterion contains_character of the answered request, <<>> if none
C6_Character ==
    IF IsList(request) /\ response.status = 200
       /\ request.params.contains_character # None
    THEN request.params.contains_character
    ELSE IF IsNL(request) /\ response.status = 200
            /\ "contains_character" \in DOMAIN response.body.filters
    THEN response.body.filters["contains_character"]
    ELSE <<>>

\* the stored rows that pass the request's other criteria
C6_PassOthers ==
    IF IsList(request)
    THEN get_queryset([request.params EXCEPT !.contains_character = None],
                      store)
    ELSE LET f == response.body.filters
         IN  ApplyFilters([k \in DOMAIN f \ {"contains_character"} |-> f[k]],
                          store)

C6_Returned ==
    {response.body.data[i].value : i \in 1..Len(response.body.data)}

\* C6 as claimed: contains_character selects exactly the stored rows whose
\* value holds that very character, the letter case counting.
C6_CaseSensitive ==
    Len(C6_Character) = 1 =>
        C6_Returned =
            {r.value : r \in {x \in C6_PassOthers :
                \E i \in 1..Len(x.value) : x.value[i] = C6_Character[1]}}

\* C6 as amended: contains_character selects exactly the stored rows whose
\* value holds that character in either letter case.
C6_CaseInsensitive ==
    Len(C6_Character) = 1 =>
        C6_Returned =
            {r.value : r \in {x \in C6_PassOthers :
                \E i \in 1..Len(x.value) :
                    LowerChar(x.value[i]) = LowerChar(C6_Character[1])}}

\* a returned row holds the character only in the other letter case
C6_Witness ==
    /\ Len(C6_Character) = 1
    /\ \E v \in C6_Returned :
          /\ \A i \in 1..Len(v) : v[i] # C6_Character[1]
          /\ \E i \in 1..Len(v) : LowerChar(v[i]) = LowerChar(C6_Character[1])

\* C8: GET /strings answers 400 when a min_length, max_length or word_count
\* it is given is no integer or an is_palindrome it is given is no boolean
\* (a key with an empty value counts as not given), and a key it does not
\* know never causes a 400.
C8_UnparseableRejected ==
    IsList(request) =>
        LET p == request.params
            bad == \/ \E k \in NumericKeys : Truthy(p[k]) /\ ~IsIntText(p[k])
                   \/ Truthy(p.is_palindrome)
                      /\ ~C5_IsBoolean(p.is_palindrome)
        IN  IF bad THEN response.status = 400 ELSE response.status = 200

\* C9: a query no rule fires for is answered with no rows, count 0 and the
\* empty criteria mapping, whatever the store holds.
C9_NoRuleNoRows ==
    (IsNL(request) /\ response.status = 200
       /\ ParseQuery(Strip(request.query)) = <<>>)
    => /\ response.body.filters = <<>>
       /\ response.body.data = <<>>
       /\ response.body.count = 0

SingleWordPalindromic ==
    <<"s","i","n","g","l","e"," ","w","o","r","d"," ","p","a","l","i",
      "n","d","r","o","m","i","c"," ","s","t","r","i","n","g","s">>

\* C10: a 200 answer of the natural-language endpoint carries
\* interpreted_query with the query text as original and the criteria as
\* parsed_filters, {is_palindrome: true, word_count: 1} for "single word
\* palindromic strings"; a missing or blank query is answered 400.
C10_InterpretedQuery ==
    IsNL(request) =>
        IF request.query = None \/ Strip(request.query) = <<>>
        THEN response.status = 400
        ELSE /\ response.status = 200
             /\ "interpreted_query" \in DOMAIN response.body
             /\ response.body.interpreted_query.original
                  = Strip(request.query)
             /\ request.query = SingleWordPalindromic
                => response.body.interpreted_query.parsed_filters
                     = [is_palindrome |-> TRUE, word_count |-> 1]

(***************************************************************************)
(* The claims, checked under InterpreterSpec.                              *)
(***************************************************************************)
\* the phrase lists the answered query is written with
AnsweredPhrases ==
    IF IsNL(request) /\ response.status = 200
    THEN {ps \in PhraseLists : JoinPhrases(ps) = request.query}
    ELSE {}

HasKind(ps, kind) == \E i \in 1..Len(ps) : ps[i].kind = kind

\* the number of the first phrase of this kind
FirstNumber(ps, kind) ==
    LET idx == {i \in 1..Len(ps) : ps[i].kind = kind}
    IN  ps[CHOOSE i \in idx : \A j \in idx : i <= j].n

\* the mapping holds exactly this value under the key
Yields(filters, key, n) == key \in DOMAIN filters /\ filters[key] = n

\* C11: "longer than N" yields min_length = N + 1, "shorter than N" yields
\* max_length = N - 1, an exact-length phrase sets both to N and replaces
\* what the other two produced; without these phrases neither key is set.
C11_LengthRules ==
    \A ps \in AnsweredPhrases :
        LET f == response.body.filters
        IN  /\ IF HasKind(ps, "exact")
               THEN Yields(f, "min_length", FirstNumber(ps, "exact"))
               ELSE IF HasKind(ps, "longer")
               THEN Yields(f, "min_length", FirstNumber(ps, "longer") + 1)
               ELSE "min_length" \notin DOMAIN f
            /\ IF HasKind(ps, "exact")
               THEN Yields(f, "max_length", FirstNumber(ps, "exact"))
               ELSE IF HasKind(ps, "shorter")
               THEN Yields(f, "max_length", FirstNumber(ps, "shorter") - 1)
               ELSE "max_length" \notin DOMAIN f

\* a query with a longer-than and an exact-length phrase was answered with
\* the exact length as min_length
C11_Witness ==
    \E ps \in AnsweredPhrases :
        /\ HasKind(ps, "exact")
        /\ HasKind(ps, "longer")
        /\ FirstNumber(ps, "longer") + 1 # FirstNumber(ps, "exact")
        /\ response.body.filters["min_length"] = FirstNumber(ps, "exact")

VowelOrder == <<"a", "e", "i", "o", "u">>

\* the vowels the phrases name
NamedVowels(ps) == UNION {ps[i].named : i \in 1..Len(ps)}

\* the first of these vowels in the order a, e, i, o, u
FirstVowel(named) ==
    VowelOrder[CHOOSE i \in 1..5 :
        /\ VowelOrder[i] \in named
        /\ \A j \in 1..5 : VowelOrder[j] \in named => i <= j]

\* C12: when a query names a vowel, contains_character is that vowel and
\* not the letter of a containing/with phrase of the same query; of several
\* named vowels the first in the order a, e, i, o, u is taken.
C12_NamedVowelWins ==
    \A ps \in AnsweredPhrases :
        NamedVowels(ps) # {} =>
            Yields(response.body.filters, "contains_character",
                   <<FirstVowel(NamedVowels(ps))>>)

\* a query with a containing/with phrase for another letter and a named
\* vowel was answered with the vowel
C12_Witness ==
    \E ps \in AnsweredPhrases :
        /\ NamedVowels(ps) # {}
        /\ \E i \in 1..Len(ps) :
              /\ ps[i].kind = "generic"
              /\ ps[i].letter \notin NamedVowels(ps)
        /\ response.body.filters["contains_character"]
             = <<FirstVowel(NamedVowels(ps))>>

\* the query says "shorter than 0" and gives no exact length
SaysShorterThanZero(ps) ==
    /\ HasKind(ps, "shorter")
    /\ FirstNumber(ps, "shorter") = 0
    /\ ~HasKind(ps, "exact")

\* what C14 says of the keys other than max_length
C14_OtherKeys(f) ==
    /\ "min_length" \in DOMAIN f => f["min_length"] \in Nat
    /\ "word_count" \in DOMAIN f => f["word_count"] \in {1, 2, 3}
    /\ "is_palindrome" \in DOMAIN f => f["is_palindrome"] = TRUE
    /\ "contains_character" \in DOMAIN f
       => /\ Len(f["contains_character"]) = 1
          /\ IsLower(f["contains_character"][1])

\* C14 as claimed: in every mapping the interpreter emits min_length and
\* max_length are non-negative, word_count is 1, 2 or 3, is_palindrome is
\* true and contains_character is one lowercase letter.
C14_ValidCriteria ==
    (IsNL(request) /\ response.status = 200) =>
        LET f == response.body.filters
        IN  /\ C14_OtherKeys(f)
            /\ "max_length" \in DOMAIN f => f["max_length"] \in Nat

\* C14 as amended: the same, but max_length is -1 for "shorter than 0" and
\* non-negative for every other query.
C14_ValidButShorterThanZero ==
    (IsNL(request) /\ response.status = 200) =>
        LET f == response.body.filters
        IN  /\ C14_OtherKeys(f)
            /\ \A ps \in AnsweredPhrases :
                  "max_length" \in DOMAIN f =>
                      IF SaysShorterThanZero(ps)
                      THEN f["max_length"] = 0 - 1
                      ELSE f["max_length"] \in Nat

\* "shorter than 0" was answered, beside a word count, the palindrome key
\* and a letter or beside nothing else
C14_Witness ==
    \E ps \in AnsweredPhrases :
        /\ SaysShorterThanZero(ps)
        /\ response.body.filters["max_length"] = 0 - 1
        /\ Len(ps) >= 2

(***************************************************************************)
(* The stored rows, checked under Spec. The String Analyzer's result is    *)
(* restated here position by position, apart from analyze_string.          *)
(***************************************************************************)
\* the positions of v that hold a letter or a digit
AlnumAt(v) == {i \in 1..Len(v) : IsAlnum(v[i])}

\* v reads the same in both directions over its letters and digits, letter
\* case ignored; false when it has none
ReadsBothWays(v) ==
    /\ AlnumAt(v) # {}
    /\ \A i, j \in AlnumAt(v) :
          Cardinality({k \in AlnumAt(v) : k < i})
              = Cardinality({k \in AlnumAt(v) : k > j})
          => LowerChar(v[i]) = LowerChar(v[j])

\* the words of v, counted at their last character
WordEnds(v) ==
    {i \in 1..Len(v) : ~IsSpace(v[i]) /\ (i = Len(v) \/ IsSpace(v[i + 1]))}

\* m counts every character of v as often as it occurs
CountsOf(m, v) ==
    /\ DOMAIN m = {v[i] : i \in 1..Len(v)}
    /\ \A i \in 1..Len(v) :
          m[v[i]] = Cardinality({j \in 1..Len(v) : v[j] = v[i]})

C13_Analyzed(r) ==
    /\ r.sha256_hash = SHA256(r.value)
    /\ r.length = Len(r.value)
    /\ r.is_palindrome = ReadsBothWays(r.value)
    /\ r.unique_characters = Cardinality({r.value[i] : i \in 1..Len(r.value)})
    /\ r.word_count = Cardinality(WordEnds(r.value))
    /\ CountsOf(r.character_frequency_map, r.value)

\* C13: every stored row holds the SHA-256 of its value and the length,
\* is_palindrome (false when the value has no letter or digit),
\* unique_characters, word_count and character_frequency_map of its value,
\* and no request changes a field of a row that is already stored.
C13_StoredRowsAnalyzed ==
    /\ [](\A r \in store : C13_Analyzed(r))
    /\ [][ \A r \in store : \A r2 \in store' :
             (r2.value = r.value \/ r2.sha256_hash = r.sha256_hash)
             => r2 = r ]_vars

\* a row without letter or digit is stored as no palindrome, beside a row
\* that is one
C13_Witness ==
    \E r1, r2 \in store :
        /\ SelectAlnum(r1.value) = <<>>
        /\ ~r1.is_palindrome
        /\ r2.is_palindrome

=============================================================================
